---- MODULE Spec2Model ----
(***************************************************************************)
(* bench_conv.py: a benchmark of conv2d under two strategies.              *)
(*                                                                         *)
(* With an argument the script is the sweep runner: it times every point   *)
(* of itertools.product(N, HW, C) and prints the samples on one line.      *)
(* Without one it is the comparison driver: it runs the sweep runner twice *)
(* as a child process (MLX_USE_WINOGRAD_CONV = 1, then 0), parses the two  *)
(* lines, and saves one heat-map of the ratios per batch size.             *)
(*                                                                         *)
(* Floats are held in fixed point: a timing or a parsed number x is the    *)
(* integer 10*x (tenths); a ratio is a reduced fraction [num, den].        *)
(* Text is a sequence of one-character strings.                            *)
(***************************************************************************)
EXTENDS Integers, Sequences, FiniteSets, TLC

VARIABLES
    oracle,       \* what the machine makes one evaluation of fun cost (ms)
    pc,           \* driver: position in the script
    err,          \* driver: the exception that ended it, or "none"
    env,          \* driver: os.environ["MLX_USE_WINOGRAD_CONV"]
    procs,        \* the child processes launched so far, in launch order
    winograd,     \* driver: parsed timing vector of the first child
    no_winograd,  \* driver: parsed timing vector of the second child
    k,            \* driver: flat index into both vectors
    bn,           \* driver: index into N of the loop variable n
    i,            \* driver: row loop variable
    j,            \* driver: column loop variable
    res_mat,      \* driver: the ratio matrix being filled
    fig,          \* driver: pyplot's current figure
    saved,        \* the savefig calls made, in order
    tpc,          \* timeit: position
    targs,        \* timeit: the call's arguments (grid point and strategy)
    titer,        \* timeit: iterations of the current loop completed
    now,          \* the wall clock, in ticks
    tic,          \* timeit: start timestamp
    toc,          \* timeit: end timestamp
    pending,      \* timeit: lazy results built but not yet evaluated
    forced,       \* timeit: evaluations completed, per phase
    convs,        \* timeit: conv2d applications executed by the device
    ms            \* timeit: the returned sample

vars == <<oracle, pc, err, env, procs, winograd, no_winograd, k, bn, i, j,
          res_mat, fig, saved, tpc, targs, titer, now, tic, toc, pending,
          forced, convs, ms>>

drv_vars == <<pc, err, env, winograd, no_winograd, k, bn, i, j, res_mat,
              fig, saved>>

timeit_vars == <<tpc, targs, titer, now, tic, toc, pending, forced, convs, ms>>

----------------------------------------------------------------------------
(* Bounds of the model *)

\* under the first strategy one evaluation of fun costs 0..MaxCost ms in the
\* uniform timing profiles
MaxCost == 2

\* number of grid positions sampled for an anomalous (zero) measurement
ZeroSlots == 3

\* an external child's vector has 144 - LenSlack .. 144 + LenSlack samples
LenSlack == 1

----------------------------------------------------------------------------
(* Program constants *)

N == <<1, 4, 8, 16, 32, 64>>

HW == <<9, 18, 36, 72>>

C == <<16, 32, 64, 64, 128, 256>>

\* range(5) of the warm-up loop
Warmup == 5

\* range(100) of the measured loop
Reps == 100

\* range(5) inside fun
ConvPerFun == 5

\* time.time() is read in ticks of one millisecond
TicksPerSecond == 1000

\* a float x is held as the integer FloatScale * x
FloatScale == 10

----------------------------------------------------------------------------
(* Text and floats *)

Digits == <<"0", "1", "2", "3", "4", "5", "6", "7", "8", "9">>

IsDigit(ch) == \E d \in 1..10 : Digits[d] = ch

DigitVal(ch) == (CHOOSE d \in 1..10 : Digits[d] = ch) - 1

RECURSIVE IntStr(_)
\* str() of a non-negative int: its decimal digits
IntStr(x) == IF x < 10 THEN <<Digits[x + 1]>>
             ELSE IntStr(x \div 10) \o <<Digits[(x % 10) + 1]>>

\* str() of a non-negative float held in tenths: "2.0", "14.5"
FloatStr(t) == IntStr(t \div FloatScale) \o <<".">> \o <<Digits[(t % FloatScale) + 1]>>

RECURSIVE Join(_, _)
\* sep.join(parts); the parts are joined by halves to keep the evaluation
\* shallow, the result is that of joining them left to right
Join(parts, sep) ==
    IF parts = <<>> THEN <<>>
    ELSE IF Len(parts) = 1 THEN parts[1]
    ELSE LET h == Len(parts) \div 2
         IN  Join(SubSeq(parts, 1, h), sep) \o <<sep>>
                 \o Join(SubSeq(parts, h + 1, Len(parts)), sep)

\* print(s): s and a newline
PrintLine(s) == s \o <<"\n">>

RECURSIVE SplitRange(_, _, _, _)
\* the tokens of text[lo..hi] taken as a text of its own; the range is cut at
\* a separator near its middle to keep the evaluation shallow
SplitRange(text, sep, lo, hi) ==
    LET cuts == {q \in lo..hi : text[q] = sep}
        mid  == (lo + hi) \div 2
    IN  IF cuts = {} THEN <<SubSeq(text, lo, hi)>>
        ELSE LET right == {q \in cuts : q >= mid}
                 c == IF right # {}
                      THEN CHOOSE q \in right : \A r \in right : q <= r
                      ELSE CHOOSE q \in cuts : \A r \in cuts : r <= q
             IN  SplitRange(text, sep, lo, c - 1) \o SplitRange(text, sep, c + 1, hi)

\* text.split(sep): never empty, "" splits into one empty token
Split(text, sep) == SplitRange(text, sep, 1, Len(text))

IsSpace(ch) == ch \in {" ", "\n", "\t", "\r"}

\* str.strip(), which float() applies to its argument
Strip(tok) ==
    LET keep == {p \in 1..Len(tok) : ~IsSpace(tok[p])}
    IN  IF keep = {} THEN <<>>
        ELSE SubSeq(tok, CHOOSE p \in keep : \A q \in keep : p <= q,
                         CHOOSE p \in keep : \A q \in keep : q <= p)

RECURSIVE IntVal(_)
IntVal(ds) == IF ds = <<>> THEN 0
              ELSE 10 * IntVal(SubSeq(ds, 1, Len(ds) - 1)) + DigitVal(ds[Len(ds)])

\* float(tok) on the decimal literals the model prints: digits, an optional
\* point and at most one fractional digit; anything else is a ValueError
ParseFloat(tok) ==
    LET s    == Strip(tok)
        dots == {p \in 1..Len(s) : s[p] = "."}
        dot  == IF dots = {} THEN Len(s) + 1 ELSE CHOOSE p \in dots : TRUE
        ip   == SubSeq(s, 1, dot - 1)
        fp   == SubSeq(s, dot + 1, Len(s))
        ok   == /\ Cardinality(dots) <= 1
                /\ \A p \in 1..Len(s) : p \notin dots => IsDigit(s[p])
                /\ Len(ip) + Len(fp) >= 1
                /\ Len(fp) <= 1
    IN  IF ~ok THEN [ok |-> FALSE, val |-> 0]
        ELSE [ok |-> TRUE,
              val |-> FloatScale * IntVal(ip) + (IF fp = <<>> THEN 0 ELSE DigitVal(fp[1]))]

\* [float(t) for t in stdout.decode().split(",")]
ParseVector(stdout) ==
    LET toks == Split(stdout, ",")
        fs   == [q \in 1..Len(toks) |-> ParseFloat(toks[q])]
    IN  IF \A q \in 1..Len(toks) : fs[q].ok
        THEN [ok |-> TRUE, val |-> [q \in 1..Len(toks) |-> fs[q].val]]
        ELSE [ok |-> FALSE, val |-> <<>>]

RECURSIVE Gcd(_, _)
Gcd(a, b) == IF b = 0 THEN a ELSE Gcd(b, a % b)

\* a slip: the operands of the division exchanged
DivSwapped(x, y) ==
    IF x = 0 THEN [ok |-> FALSE, val |-> [num |-> 0, den |-> 0]]
    ELSE LET g == Gcd(y, x)
         IN  [ok |-> TRUE, val |-> [num |-> y \div g, den |-> x \div g]]

\* a slip: the division of numpy arrays, which yields inf or nan on a zero
\* divisor instead of raising
DivNumpy(x, y) ==
    IF y = 0 THEN [ok |-> TRUE, val |-> [num |-> IF x = 0 THEN 0 ELSE 1, den |-> 0]]
    ELSE LET g == Gcd(x, y)
         IN  [ok |-> TRUE, val |-> [num |-> x \div g, den |-> y \div g]]

\* x / y on Python floats: a zero divisor raises ZeroDivisionError
Div(x, y) ==
    IF y = 0 THEN [ok |-> FALSE, val |-> [num |-> 0, den |-> 0]]
    ELSE LET g == Gcd(x, y)
         IN  [ok |-> TRUE, val |-> [num |-> x \div g, den |-> y \div g]]

----------------------------------------------------------------------------
(* The grid *)

\* a slip: the lists nested the other way round, the leftmost fastest
ProductReversed(X, Y, Z) ==
    [p \in 1..(Len(X) * Len(Y) * Len(Z)) |->
        <<X[((p - 1) % Len(X)) + 1],
          Y[(((p - 1) \div Len(X)) % Len(Y)) + 1],
          Z[((p - 1) \div (Len(X) * Len(Y))) + 1]>>]

\* itertools.product(X, Y, Z): the rightmost list advances fastest
Product(X, Y, Z) ==
    [p \in 1..(Len(X) * Len(Y) * Len(Z)) |->
        <<X[((p - 1) \div (Len(Y) * Len(Z))) + 1],
          Y[(((p - 1) \div Len(Z)) % Len(Y)) + 1],
          Z[((p - 1) % Len(Z)) + 1]>>]

Grid == Product(N, HW, C)

GridLen == Len(N) * Len(HW) * Len(C)

----------------------------------------------------------------------------
(* The machine: what one evaluation of fun costs *)

\* the grid positions at which a measurement may come out as zero
ZeroPos(q) == 1 + ((q * 53) % GridLen)

Oracles ==
    {[kind |-> "flat", a |-> x, b |-> 1, z |-> 0] : x \in 0..MaxCost}
    \cup {[kind |-> "ramp", a |-> 1, b |-> 2, z |-> 0]}
    \cup {[kind |-> "zero", a |-> 2, b |-> 1, z |-> ZeroPos(q)] : q \in 0..(ZeroSlots - 1)}

\* first position of the grid holding this (batch, extent, channels) triple
Rank(pt) == CHOOSE p \in 1..GridLen : Grid[p] = pt /\ \A q \in 1..(p - 1) : Grid[q] # pt

\* milliseconds one mx.eval(fun(image)) takes on shapes pt under strategy e
EvalCost(o, e, pt) ==
    CASE o.kind = "flat" -> IF e = "1" THEN o.a ELSE o.b
      [] o.kind = "ramp" -> IF e = "1" THEN o.a + Rank(pt) ELSE o.b
      [] o.kind = "zero" -> IF e = "1" THEN o.a
                            ELSE IF pt = Grid[o.z] THEN 0 ELSE o.b

\* ms = 10 * (toc - tic), the timestamps in ticks, the result in tenths
Ms(t0, t1) == (10 * (t1 - t0) * FloatScale) \div TicksPerSecond

\* timeit(fun, image) taken as one step: Reps evaluations between tic and toc
timeit(o, e, pt) == Ms(0, Reps * EvalCost(o, e, pt))

----------------------------------------------------------------------------
(* The sweep runner (a child process) *)

\* the command line of subprocess.run
Argv == <<"python", "bench_conv.py", "-b">>

\* len(sys.argv) > 1, sys.argv being the command line after the interpreter
BenchmarkMode(argv) == Len(Tail(argv)) > 1

\* a slip: the samples printed as they are measured, so that a child that
\* dies has written those it had
FailureOutputPartial(times) == PrintLine(Join(times, ","))

\* what a child that dies has written: print is the last statement before
\* exit(0), so nothing
FailureOutput(times) == <<>>

\* the child running now (the last one launched)
cur == Len(procs)

NewProc(argv, e) ==
    [argv |-> argv, env |-> e, state |-> "start", pos |-> 1, times |-> <<>>,
     measured |-> <<>>, returncode |-> -1, stdout |-> <<>>]

\* lines 1-24: the imports, the lists, the test of sys.argv
ChildStart ==
    /\ cur >= 1
    /\ procs[cur].state = "start"
    /\ procs' = [procs EXCEPT ![cur].state =
                    IF BenchmarkMode(procs[cur].argv) THEN "sweep" ELSE "driver"]
    /\ UNCHANGED <<oracle, drv_vars, timeit_vars>>

\* lines 26-35: one iteration of the sweep
ChildGridPoint ==
    /\ cur >= 1
    /\ procs[cur].state = "sweep"
    /\ procs[cur].pos <= GridLen
    /\ LET pt == Grid[procs[cur].pos]
           e  == procs[cur].env
       IN  procs' = [procs EXCEPT
                ![cur].times = Append(@, FloatStr(timeit(oracle, e, pt))),
                ![cur].measured = Append(@, [pt |-> pt, env |-> e]),
                ![cur].pos = @ + 1]
    /\ UNCHANGED <<oracle, drv_vars, timeit_vars>>

\* lines 36-37: print(",".join(times)); exit(0)
ChildPrint ==
    /\ cur >= 1
    /\ procs[cur].state = "sweep"
    /\ procs[cur].pos > GridLen
    /\ procs' = [procs EXCEPT
            ![cur].stdout = PrintLine(Join(procs[cur].times, ",")),
            ![cur].returncode = 0,
            ![cur].state = "exited"]
    /\ UNCHANGED <<oracle, drv_vars, timeit_vars>>

\* an import, an allocation or an evaluation raises: the child dies with
\* status 1 before it has printed
ChildCrash ==
    /\ cur >= 1
    /\ procs[cur].state \in {"start", "sweep"}
    /\ procs[cur].pos <= GridLen
    /\ procs' = [procs EXCEPT
            ![cur].stdout = FailureOutput(procs[cur].times),
            ![cur].returncode = 1,
            ![cur].state = "exited"]
    /\ UNCHANGED <<oracle, drv_vars, timeit_vars>>

----------------------------------------------------------------------------
(* The comparison driver *)

\* a slip: the two settings exchanged
StrategyEnvReversed(q) == IF q = 1 THEN "0" ELSE "1"

\* the value MLX_USE_WINOGRAD_CONV has for the q-th child
StrategyEnv(q) == IF q = 1 THEN "1" ELSE "0"

\* a slip: the batch size left out of the file name
FileNameFixed(n) == <<"winograd_vs_no_batch">> \o <<".png">>

\* f"winograd_vs_no_batch{n}.png"
FileName(n) == <<"winograd_vs_no_batch">> \o IntStr(n) \o <<".png">>

\* np.zeros((len(HW), len(C)))
Zeros == [r \in 0..(Len(HW) - 1) |-> [c \in 0..(Len(C) - 1) |-> [num |-> 0, den |-> 1]]]

\* pyplot before anything is drawn
EmptyFig == [images |-> <<>>, colorbars |-> <<>>, title |-> "", xlabel |-> "",
             ylabel |-> "", xticklabels |-> <<>>, yticklabels |-> <<>>]

\* lines 64-74 on the current figure: plt.gca() and plt.gcf() return the
\* axes and figure already there, imshow and colorbar add to them, the
\* title, labels and ticks replace the earlier ones
Draw(f, mat) ==
    [images      |-> Append(f.images, mat),
     colorbars   |-> Append(f.colorbars, Len(f.images) + 1),
     title       |-> "Conv 2D: (Time Winograd / Time No Winograd)",
     xlabel      |-> "Channels In/Out",
     ylabel      |-> "Height/Width",
     xticklabels |-> C,
     yticklabels |-> HW]

Fail(e) ==
    /\ pc' = "failed"
    /\ err' = e

\* lines 45-49: set the variable, launch the first child, block on it
Launch1 ==
    /\ pc = "start"
    /\ env' = StrategyEnv(1)
    /\ procs' = Append(procs, NewProc(Argv, env'))
    /\ pc' = "run1"
    /\ UNCHANGED <<oracle, err, winograd, no_winograd, k, bn, i, j, res_mat,
                   fig, saved, timeit_vars>>

\* lines 47-50: subprocess.run returns (the exit status is not looked at),
\* the captured output is parsed
Parse1 ==
    /\ pc = "run1"
    /\ procs[cur].state = "exited"
    /\ LET v == ParseVector(procs[cur].stdout)
       IN  IF v.ok
           THEN /\ winograd' = v.val
                /\ pc' = "parsed1"
                /\ err' = err
           ELSE /\ Fail("ValueError")
                /\ winograd' = winograd
    /\ UNCHANGED <<oracle, env, procs, no_winograd, k, bn, i, j, res_mat, fig,
                   saved, timeit_vars>>

\* lines 51-54: change the variable, launch the second child, block on it
Launch2 ==
    /\ pc = "parsed1"
    /\ env' = StrategyEnv(2)
    /\ procs' = Append(procs, NewProc(Argv, env'))
    /\ pc' = "run2"
    /\ UNCHANGED <<oracle, err, winograd, no_winograd, k, bn, i, j, res_mat,
                   fig, saved, timeit_vars>>

\* lines 52-59: the second output is parsed, k = 0, the loop over N starts
Parse2 ==
    /\ pc = "run2"
    /\ procs[cur].state = "exited"
    /\ LET v == ParseVector(procs[cur].stdout)
       IN  IF v.ok
           THEN /\ no_winograd' = v.val
                /\ k' = 0
                /\ bn' = 1
                /\ i' = 0
                /\ j' = 0
                /\ res_mat' = Zeros
                /\ pc' = "fill"
                /\ err' = err
           ELSE /\ Fail("ValueError")
                /\ UNCHANGED <<no_winograd, k, bn, i, j, res_mat>>
    /\ UNCHANGED <<oracle, env, procs, winograd, fig, saved, timeit_vars>>

\* lines 60-63: res_mat[i, j] = winograd[k] / no_winograd[k]; k += 1
Fill ==
    /\ pc = "fill"
    /\ IF k >= Len(winograd) \/ k >= Len(no_winograd)
       THEN /\ Fail("IndexError")
            /\ UNCHANGED <<k, i, j, res_mat>>
       ELSE LET r == Div(winograd[k + 1], no_winograd[k + 1])
            IN  IF ~r.ok
                THEN /\ Fail("ZeroDivisionError")
                     /\ UNCHANGED <<k, i, j, res_mat>>
                ELSE /\ res_mat' = [res_mat EXCEPT ![i][j] = r.val]
                     /\ k' = k + 1
                     /\ err' = err
                     /\ IF j + 1 < Len(C)
                        THEN /\ j' = j + 1
                             /\ i' = i
                             /\ pc' = pc
                        ELSE IF i + 1 < Len(HW)
                        THEN /\ j' = 0
                             /\ i' = i + 1
                             /\ pc' = pc
                        ELSE /\ j' = j
                             /\ i' = i
                             /\ pc' = "render"
    /\ UNCHANGED <<oracle, env, procs, winograd, no_winograd, bn, fig, saved,
                   timeit_vars>>

\* lines 64-75, then lines 58-59 of the next iteration
Render ==
    /\ pc = "render"
    /\ fig' = Draw(fig, res_mat)
    /\ saved' = Append(saved, [name |-> FileName(N[bn]), fig |-> fig'])
    /\ IF bn < Len(N)
       THEN /\ bn' = bn + 1
            /\ res_mat' = Zeros
            /\ i' = 0
            /\ j' = 0
            /\ pc' = "fill"
       ELSE /\ pc' = "done"
            /\ UNCHANGED <<bn, res_mat, i, j>>
    /\ UNCHANGED <<oracle, err, env, procs, winograd, no_winograd, k,
                   timeit_vars>>

----------------------------------------------------------------------------
(* The specification of the program: the driver and its two children *)

TimeitIdle ==
    /\ tpc = "idle"
    /\ targs = [pt |-> <<>>, env |-> ""]
    /\ titer = 0
    /\ now = 0
    /\ tic = 0
    /\ toc = 0
    /\ pending = 0
    /\ forced = [warm |-> 0, timed |-> 0]
    /\ convs = 0
    /\ ms = 0

DriverStart ==
    /\ pc = "start"
    /\ err = "none"
    /\ env = "unset"
    /\ procs = <<>>
    /\ winograd = <<>>
    /\ no_winograd = <<>>
    /\ k = 0
    /\ bn = 0
    /\ i = 0
    /\ j = 0
    /\ res_mat = <<>>
    /\ fig = EmptyFig
    /\ saved = <<>>

Init ==
    /\ oracle \in Oracles
    /\ DriverStart
    /\ TimeitIdle

Next ==
    \/ Launch1
    \/ ChildStart
    \/ ChildGridPoint
    \/ ChildPrint
    \/ ChildCrash
    \/ Parse1
    \/ Launch2
    \/ Parse2
    \/ Fill
    \/ Render

Spec == Init /\ [][Next]_vars

----------------------------------------------------------------------------
(* timeit(fun, image) step by step *)

\* a slip: the two loop counts exchanged
RangeSwapped(phase) == IF phase = "warm" THEN Reps ELSE Warmup

\* range(5) of the warm-up loop, range(100) of the measured loop
Range(phase) == IF phase = "warm" THEN Warmup ELSE Reps

\* the position after a loop: tic = time.time() or toc = time.time()
AfterLoop(phase) == IF phase = "warm" THEN "tic" ELSE "toc"

\* fn(*args): fun builds the lazy result of ConvPerFun chained conv2d
TCall ==
    /\ tpc \in {"warm", "timed"}
    /\ pending = 0
    /\ titer < Range(tpc)
    /\ pending' = 1
    /\ UNCHANGED <<oracle, drv_vars, procs, tpc, targs, titer, now, tic, toc,
                   forced, convs, ms>>

\* mx.eval(...) of the result just built: the device runs its conv2d and
\* the call returns when they are complete; then the loop goes on or ends
TEval ==
    /\ tpc \in {"warm", "timed"}
    /\ pending = 1
    /\ pending' = 0
    /\ convs' = convs + ConvPerFun
    /\ forced' = [forced EXCEPT ![tpc] = @ + 1]
    /\ now' = now + EvalCost(oracle, targs.env, targs.pt)
    /\ titer' = titer + 1
    /\ tpc' = IF titer + 1 < Range(tpc) THEN tpc ELSE AfterLoop(tpc)
    /\ UNCHANGED <<oracle, drv_vars, procs, targs, tic, toc, ms>>

\* tic = time.time()
TTic ==
    /\ tpc = "tic"
    /\ tic' = now
    /\ titer' = 0
    /\ tpc' = "timed"
    /\ UNCHANGED <<oracle, drv_vars, procs, targs, now, toc, pending, forced,
                   convs, ms>>

\* toc = time.time()
TToc ==
    /\ tpc = "toc"
    /\ toc' = now
    /\ tpc' = "ret"
    /\ UNCHANGED <<oracle, drv_vars, procs, targs, titer, now, tic, pending,
                   forced, convs, ms>>

\* ms = 10 * (toc - tic); return ms
TReturn ==
    /\ tpc = "ret"
    /\ ms' = Ms(tic, toc)
    /\ tpc' = "done"
    /\ UNCHANGED <<oracle, drv_vars, procs, targs, titer, now, tic, toc,
                   pending, forced, convs>>

\* a call of timeit from the sweep: any strategy, a sample of grid points
InitTimeit ==
    /\ oracle \in Oracles
    /\ DriverStart
    /\ tpc = "warm"
    /\ targs \in {[pt |-> Grid[ZeroPos(q)], env |-> e] :
                     q \in 0..ZeroSlots, e \in {StrategyEnv(1), StrategyEnv(2)}}
    /\ titer = 0
    /\ now = 0
    /\ tic = 0
    /\ toc = 0
    /\ pending = 0
    /\ forced = [warm |-> 0, timed |-> 0]
    /\ convs = 0
    /\ ms = 0

NextTimeit ==
    \/ TCall
    \/ TEval
    \/ TTic
    \/ TToc
    \/ TReturn

SpecTimeit == InitTimeit /\ [][NextTimeit]_vars

----------------------------------------------------------------------------
(* The driver against any child: what `python bench_conv.py -b` resolves   *)
(* to is outside the driver, which sees an exit status and captured text   *)

\* a line of n samples, each the float v
VectorLine(n, v) == PrintLine(Join([q \in 1..n |-> FloatStr(FloatScale * v)], ","))

ExtOutputs ==
    {VectorLine(n, v) : n \in (GridLen - LenSlack)..(GridLen + LenSlack), v \in {1, 2}}
    \cup {<<>>, <<"T", "r", "a", "c", "e", "\n">>}

\* the child runs to its end
ExtChild ==
    /\ cur >= 1
    /\ procs[cur].state = "start"
    /\ \E rc \in {0, 1}, out \in ExtOutputs :
          procs' = [procs EXCEPT ![cur].stdout = out,
                                 ![cur].returncode = rc,
                                 ![cur].state = "exited"]
    /\ UNCHANGED <<oracle, drv_vars, timeit_vars>>

InitDriver ==
    /\ oracle = [kind |-> "flat", a |-> 2, b |-> 1, z |-> 0]
    /\ DriverStart
    /\ TimeitIdle

NextDriver ==
    \/ Launch1
    \/ ExtChild
    \/ Parse1
    \/ Launch2
    \/ Parse2
    \/ Fill
    \/ Render

SpecDriver == InitDriver /\ [][NextDriver]_vars

----------------------------------------------------------------------------
(* Properties *)

\* the child processes that ran the whole sweep and printed
Printed == {q \in 1..Len(procs) : procs[q].state = "exited" /\ procs[q].returncode = 0}

\* r is the fraction x / y
RatioOf(r, x, y) == y # 0 /\ r.den > 0 /\ r.num * y = r.den * x

\* the heat-map drawn for the q-th save
Drawn(q) == saved[q].fig.images[Len(saved[q].fig.images)]

ExpectedNames ==
    << <<"winograd_vs_no_batch", "1", ".png">>,
       <<"winograd_vs_no_batch", "4", ".png">>,
       <<"winograd_vs_no_batch", "8", ".png">>,
       <<"winograd_vs_no_batch", "1", "6", ".png">>,
       <<"winograd_vs_no_batch", "3", "2", ".png">>,
       <<"winograd_vs_no_batch", "6", "4", ".png">> >>

\* C1: a sweep that completes has measured the points in the order
\* N outer, HW middle, C inner, and writes one newline-terminated line of
\* 6 x 4 x 6 = 144 comma-separated samples, the one at flat position
\* (a*4 + b)*6 + c being the one measured for (N[a], HW[b], C[c]); the line
\* is looked at when the child has exited and the driver is about to read it
C1_OneLineInProductOrder ==
    \A q \in Printed :
        /\ Len(procs[q].measured) = 144
        /\ \A a \in 0..5, b \in 0..3, c \in 0..5 :
              procs[q].measured[(a * 4 + b) * 6 + c + 1].pt = <<N[a + 1], HW[b + 1], C[c + 1]>>
        /\ (q = Len(procs) /\ pc \in {"run1", "run2"}) =>
              LET out  == procs[q].stdout
                  toks == Split(SubSeq(out, 1, Len(out) - 1), ",")
                  fs   == [p \in 1..Len(toks) |-> ParseFloat(toks[p])]
              IN  /\ Len(out) >= 1
                  /\ out[Len(out)] = "\n"
                  /\ Cardinality({p \in 1..Len(out) : out[p] = "\n"}) = 1
                  /\ Len(toks) = 144
                  /\ \A a \in 0..5, b \in 0..3, c \in 0..5 :
                        LET pos == (a * 4 + b) * 6 + c + 1
                        IN  /\ fs[pos].ok
                            /\ fs[pos].val =
                                  timeit(oracle, procs[q].env, <<N[a + 1], HW[b + 1], C[c + 1]>>)

\* C1 witness: a completed sweep whose samples differ from point to point
C1_Witness ==
    /\ oracle.kind = "ramp"
    /\ pc = "run1"
    /\ \E q \in Printed : procs[q].env = "1"

\* C2: with two vectors of 144 samples, the entry (i, j) of the matrix of
\* batch index a is A[k] / B[k] for k = (a*4 + i)*6 + j, the two samples
\* measured for (N[a], HW[i], C[j]); k counts the entries written, each
\* element being read once, in order
C2_RatioAtGridPoint ==
    pc \in {"fill", "render", "done"} =>
        /\ Len(winograd) = 144
        /\ Len(no_winograd) = 144
        /\ k = (IF pc = "fill" THEN ((bn - 1) * 4 + i) * 6 + j ELSE bn * 24)
        /\ Len(saved) = (IF pc = "done" THEN 6 ELSE bn - 1)
        /\ \A a \in 1..Len(saved), r \in 0..3, c \in 0..5 :
              LET kk == ((a - 1) * 4 + r) * 6 + c + 1
                  pt == <<N[a], HW[r + 1], C[c + 1]>>
              IN  /\ RatioOf(Drawn(a)[r][c], winograd[kk], no_winograd[kk])
                  /\ winograd[kk] = timeit(oracle, "1", pt)
                  /\ no_winograd[kk] = timeit(oracle, "0", pt)
        /\ \A r \in 0..3, c \in 0..5 :
              LET kk == ((bn - 1) * 4 + r) * 6 + c + 1
              IN  IF kk <= k
                  THEN RatioOf(res_mat[r][c], winograd[kk], no_winograd[kk])
                  ELSE res_mat[r][c] = [num |-> 0, den |-> 1]

\* C2 witness: all six matrices computed from samples that differ from
\* point to point
C2_Witness ==
    /\ pc = "done"
    /\ oracle.kind = "ramp"
    /\ k = 144

\* C3: one save per batch size, in the order of N, to
\* winograd_vs_no_batch{n}.png; the names are pairwise distinct; with
\* A = [2.0]*144 and B = [1.0]*144 every saved matrix is all 2.0
C3_OneImagePerBatch ==
    /\ Len(saved) <= 6
    /\ (pc = "done" => Len(saved) = 6)
    /\ \A q \in 1..Len(saved) : saved[q].name = ExpectedNames[q]
    /\ \A p \in 1..Len(saved), q \in 1..Len(saved) :
          p # q => saved[p].name # saved[q].name
    /\ (/\ winograd = [q \in 1..144 |-> 20]
        /\ no_winograd = [q \in 1..144 |-> 10])
       => \A q \in 1..Len(saved), r \in 0..3, c \in 0..5 :
             Drawn(q)[r][c] = [num |-> 2, den |-> 1]

\* C3 witness: the run on A = [2.0]*144, B = [1.0]*144 has saved all six
C3_Witness ==
    /\ pc = "done"
    /\ Len(saved) = 6
    /\ winograd = [q \in 1..144 |-> 20]
    /\ no_winograd = [q \in 1..144 |-> 10]

\* the 0-based indices at which the parsed vector B holds zero
ZerosOfB == {z \in 0..(Len(no_winograd) - 1) : no_winograd[z + 1] = 0}

FirstZeroOfB == CHOOSE z \in ZerosOfB : \A y \in ZerosOfB : z <= y

\* C4 as stated: a zero in B does not crash the driver
C4_NoCrashOnZero ==
    (pc \in {"fill", "render", "done", "failed"} /\ ZerosOfB # {}) => pc # "failed"

\* C4 amended: a zero in B ends the driver with ZeroDivisionError at the
\* first such index k: nothing, finite or not, is stored at k or after it,
\* and only the images of the groups of 24 wholly before k are saved
C4_ZeroDivisionAborts ==
    (pc \in {"fill", "render", "done", "failed"} /\ ZerosOfB # {}) =>
        /\ k <= FirstZeroOfB
        /\ pc # "done"
        /\ Len(saved) <= FirstZeroOfB \div 24
        /\ \A r \in 0..3, c \in 0..5 : res_mat[r][c].den >= 1
        /\ \A q \in 1..Len(saved), r \in 0..3, c \in 0..5 : Drawn(q)[r][c].den >= 1
        /\ pc = "failed" =>
              /\ err = "ZeroDivisionError"
              /\ k = FirstZeroOfB
              /\ Len(saved) = FirstZeroOfB \div 24
              /\ res_mat[(k \div 6) % 4][k % 6] = [num |-> 0, den |-> 1]

\* C4 witness: the driver has died on a zero after saving some images
C4_Witness ==
    /\ pc = "failed"
    /\ err = "ZeroDivisionError"
    /\ Len(saved) >= 1
    /\ no_winograd[k + 1] = 0

\* the q-th child failed, or printed what does not parse
BadChild(q) ==
    /\ procs[q].state = "exited"
    /\ \/ procs[q].returncode # 0
       \/ ~ParseVector(procs[q].stdout).ok

\* C5: when a child has failed or has printed what does not parse, the
\* step the driver takes on its return fails it, with no image written and
\* no further child launched: the first child's failure is met before the
\* second child is launched, the second's before the first image is saved
C5_ChildFailureAborts ==
    [][(pc \in {"run1", "run2"} /\ BadChild(Len(procs))) =>
          /\ pc' = "failed"
          /\ err' = "ValueError"
          /\ procs' = procs
          /\ saved = <<>>
          /\ saved' = <<>>]_vars

\* C5 witness: the second child died in its sweep and the driver has failed
C5_Witness ==
    /\ pc = "failed"
    /\ Len(procs) = 2
    /\ procs[2].returncode = 1
    /\ procs[2].pos > 1
    /\ saved = <<>>

\* C6 as stated: vectors of different length, or not of length 144, make
\* the driver fail instead of completing the six saves
C6_ShapeMismatchAborts ==
    (/\ pc \in {"fill", "render", "done"}
     /\ \/ Len(winograd) # Len(no_winograd)
        \/ Len(winograd) # 144)
    => (pc # "done" /\ Len(saved) < 6)

\* C7 as stated: every saved figure holds one heat-map and one colorbar,
\* those of its own batch size
C7_FigureResetBetweenImages ==
    \A q \in 1..Len(saved) :
        /\ Len(saved[q].fig.images) = 1
        /\ Len(saved[q].fig.colorbars) = 1

\* C8: at most two children, both with -b and so in benchmark mode, the
\* first with the variable at 1, the second with it at 0 and launched only
\* after the first has exited and its output has been parsed; each child
\* measures under the value of its own launch; a driver that reaches its
\* loop has launched exactly two
C8_TwoSequentialChildren ==
    /\ Len(procs) <= 2
    /\ \A q \in 1..Len(procs) :
          /\ procs[q].argv = <<"python", "bench_conv.py", "-b">>
          /\ procs[q].state # "driver"
          /\ procs[q].env = (IF q = 1 THEN "1" ELSE "0")
          /\ \A p \in 1..Len(procs[q].measured) :
                procs[q].measured[p].env = (IF q = 1 THEN "1" ELSE "0")
    /\ Len(procs) = 2 =>
          /\ procs[1].state = "exited"
          /\ Len(winograd) = 144
    /\ pc \in {"fill", "render", "done"} =>
          /\ Len(procs) = 2
          /\ procs[2].state = "exited"
    /\ (Len(procs) >= 1 /\ procs[Len(procs)].state # "exited") =>
          /\ pc = (IF Len(procs) = 1 THEN "run1" ELSE "run2")
          /\ env = procs[Len(procs)].env

\* C8 witness: the second child is measuring, the first one's run is over
C8_Witness ==
    /\ Len(procs) = 2
    /\ procs[2].state = "sweep"
    /\ Len(procs[2].measured) >= 1
    /\ Len(procs[1].measured) = 144
    /\ env = "0"

\* C9 as stated: in a completed sweep no (batch, extent, channels) triple
\* is measured twice and none is skipped
C9_EachTripleOnce ==
    \A q \in Printed :
        LET m == procs[q].measured
        IN  /\ \A a \in 1..6, b \in 1..4, c \in 1..6 :
                  \E p \in 1..Len(m) : m[p].pt = <<N[a], HW[b], C[c]>>
            /\ \A p1 \in 1..Len(m), p2 \in 1..Len(m) :
                  p1 # p2 => m[p1].pt # m[p2].pt

\* C10 as stated: completion is forced after the measured loop, not
\* inside it
C10_ForcedAfterLoop ==
    tpc = "timed" => forced.timed = 0

\* C10 amended: 5 warm-up evaluations, each forced, all before tic; then
\* 100 evaluations between tic and toc, each forced inside the loop as it
\* is made; every evaluation runs 5 conv2d; nothing is pending at toc
C10_WarmupThenTimed ==
    /\ pending \in {0, 1}
    /\ convs = 5 * (forced.warm + forced.timed)
    /\ tpc = "warm" => /\ forced.warm = titer
                       /\ forced.timed = 0
                       /\ titer < 5
    /\ tpc = "tic" => /\ forced = [warm |-> 5, timed |-> 0]
                      /\ pending = 0
    /\ tpc = "timed" => /\ forced.warm = 5
                        /\ forced.timed = titer
                        /\ titer < 100
                        /\ tic = 5 * EvalCost(oracle, targs.env, targs.pt)
                        /\ now = tic + titer * EvalCost(oracle, targs.env, targs.pt)
    /\ tpc \in {"toc", "ret", "done"} => /\ forced = [warm |-> 5, timed |-> 100]
                                         /\ pending = 0
                                         /\ convs = 525
    /\ tpc \in {"ret", "done"} =>
          toc - tic = 100 * EvalCost(oracle, targs.env, targs.pt)
    /\ tpc = "done" => ms = timeit(oracle, targs.env, targs.pt)

\* C10 witness: a call has returned a sample that is not zero
C10_Witness ==
    /\ tpc = "done"
    /\ ms > 0
    /\ forced = [warm |-> 5, timed |-> 100]

====
